---- MODULE Spec2Model ----
(***************************************************************************)
(* Model of the validator of yogpt_subnet                                  *)
(* (src/yogpt_subnet/validator/validator_.py, class ModelRewardChecker):   *)
(* calculate_reward, reward_completed_jobs, set_weights, assign_weight and *)
(* cut_to_max_allowed_weights.                                             *)
(*                                                                         *)
(* Representation.                                                         *)
(*  - A Python float is an exact rational <<n, d>> in lowest terms, d > 0. *)
(*    The loss, which float() may also turn into nan or inf, is a record   *)
(*    [k, q] with k in {"fin", "nan", "inf", "-inf"}.  The rounding of     *)
(*    IEEE doubles is not modelled: on the inputs used here the doubles    *)
(*    compare, format and truncate as the rationals do, while elsewhere    *)
(*    int(score * 1000) can come out one below the exact value (llama2-7b  *)
(*    with "10:15:00": 122, exactly 123).                                  *)
(*  - A Python str that the code parses or searches (totalPipelineTime,    *)
(*    loss, huggingFaceRepoId) is a sequence of one-character strings.     *)
(*    A str used only as a dictionary key (model_tuned, minerId) is a      *)
(*    TLA+ string.                                                         *)
(*  - A Python value of a job field is a record: [t |-> "none"] (the field *)
(*    is missing or None), [t |-> "str", s |-> characters],                *)
(*    [t |-> "str", key |-> string] or [t |-> "num", x |-> number].        *)
(*  - A dict is the sequence of its (key, value) items in insertion order. *)
(*  - An f-string message is the tuple of its literal pieces and of its    *)
(*    formatted values.                                                    *)
(***************************************************************************)
EXTENDS Integers, Sequences, FiniteSets, TLC

VARIABLES
    completed_jobs,   \* the datastore collection 'completed_jobs', in stream order
    modules_keys,     \* the network's identity snapshot: items (uid, address)
    pc,               \* position of the validator: "idle", "scan", "set_weights"
    run,              \* number of reward_completed_jobs invocations started
    cursor,           \* index of the next document of the stream
    score_dict,       \* the run's Score Mapping: items (minerId, score)
    votes,            \* the client.vote calls made so far
    calls,            \* the set_weights invocations made so far (run numbers)
    stream,           \* the documents jobs_ref.stream() yields in the current run
    job_data,         \* argument of a direct calculate_reward call
    result,           \* what that call returned
    limit,            \* argument max_allowed_weights of a direct cut call
    cut_scores        \* what that call returned

vars == <<completed_jobs, modules_keys, pc, run, cursor, score_dict, votes,
          calls, stream, job_data, result, limit, cut_scores>>

----------------------------------------------------------------------------
(* Bounds of the model. *)

MaxJobs == 2
MaxRuns == 2
MaxEntries == 3
MaxLimit == 3

----------------------------------------------------------------------------
(* Python values. *)

None == [t |-> "none"]
Str(s) == [t |-> "str", s |-> s]
Key(k) == [t |-> "str", key |-> k]
Num(x) == [t |-> "num", x |-> x]

(* bool(x): None and the empty str are falsy.  Truthy is for a str kept as
   a sequence of characters, TruthyKey for one kept as a TLA+ string. *)
Truthy(x) == x.t # "none" /\ (x.t = "str" => x.s # <<>>)
TruthyKey(x) == x.t # "none" /\ (x.t = "str" => x.key # "")

----------------------------------------------------------------------------
(* Floats as exact rationals. *)

Abs(n) == IF n < 0 THEN -n ELSE n

RECURSIVE GCD(_, _)
GCD(a, b) == IF b = 0 THEN a ELSE GCD(b, a % b)

Rat(n, d) ==
    LET g == GCD(Abs(n), Abs(d))
        s == IF d < 0 THEN -1 ELSE 1
    IN  <<(s * n) \div g, (s * d) \div g>>

RAdd(p, q) == Rat(p[1] * q[2] + q[1] * p[2], p[2] * q[2])
RMul(p, q) == Rat(p[1] * q[1], p[2] * q[2])
RDivInt(p, k) == Rat(p[1], p[2] * k)
RLt(p, q) == p[1] * q[2] < q[1] * p[2]
RLe(p, q) == p[1] * q[2] <= q[1] * p[2]
RDiv(p, q) == Rat(p[1] * q[2], p[2] * q[1])
RInt(k) == <<k, 1>>
RZero == <<0, 1>>

(* int(x) of a float: truncation toward zero. *)
Trunc(p) == IF p[1] >= 0 THEN p[1] \div p[2] ELSE -((-p[1]) \div p[2])

Fin(q) == [k |-> "fin", q |-> q]
NaN == [k |-> "nan", q |-> RZero]
Inf == [k |-> "inf", q |-> RZero]
NegInf == [k |-> "-inf", q |-> RZero]

(* x >= y for a float x that may be nan or inf and a finite y. *)
FloatGe(x, y) ==
    CASE x.k = "fin" -> RLe(y, x.q)
      [] x.k = "inf" -> TRUE
      [] OTHER -> FALSE

FloatLt(x, y) ==
    CASE x.k = "fin" -> RLt(x.q, y)
      [] x.k = "-inf" -> TRUE
      [] OTHER -> FALSE

----------------------------------------------------------------------------
(* Characters and the conversions built on them. *)

DigitChars == <<"0", "1", "2", "3", "4", "5", "6", "7", "8", "9">>
IsDigit(c) == \E i \in 1..10 : DigitChars[i] = c
DigitVal(c) == (CHOOSE i \in 1..10 : DigitChars[i] = c) - 1

Upper == <<"A", "B", "C", "D", "E", "F", "G", "H", "I", "J", "K", "L", "M",
           "N", "O", "P", "Q", "R", "S", "T", "U", "V", "W", "X", "Y", "Z">>
Lower == <<"a", "b", "c", "d", "e", "f", "g", "h", "i", "j", "k", "l", "m",
           "n", "o", "p", "q", "r", "s", "t", "u", "v", "w", "x", "y", "z">>

(* str.lower() *)
LowerChar(c) ==
    IF \E i \in 1..26 : Upper[i] = c
    THEN Lower[CHOOSE i \in 1..26 : Upper[i] = c]
    ELSE c
StrLower(s) == [i \in 1..Len(s) |-> LowerChar(s[i])]

(* needle in s *)
Contains(s, needle) ==
    \E i \in 1..(Len(s) - Len(needle) + 1) :
        SubSeq(s, i, i + Len(needle) - 1) = needle

huggingface == <<"h", "u", "g", "g", "i", "n", "g", "f", "a", "c", "e">>

(* s.split(sep): the pieces between the separators, empty pieces kept. *)
RECURSIVE Split(_, _)
Split(s, sep) ==
    IF \A i \in 1..Len(s) : s[i] # sep
    THEN <<s>>
    ELSE LET i == CHOOSE j \in 1..Len(s) :
                      s[j] = sep /\ \A k \in 1..(j - 1) : s[k] # sep
         IN  <<SubSeq(s, 1, i - 1)>> \o Split(SubSeq(s, i + 1, Len(s)), sep)

(* The value of a non-empty run of digits. *)
RECURSIVE DigitsVal(_)
DigitsVal(s) ==
    IF s = <<>> THEN 0
    ELSE 10 * DigitsVal(SubSeq(s, 1, Len(s) - 1)) + DigitVal(s[Len(s)])

AllDigits(s) == s # <<>> /\ \A i \in 1..Len(s) : IsDigit(s[i])

(* s with leading and trailing blanks removed, as int() and float() do. *)
RECURSIVE Strip(_)
Strip(s) ==
    IF s # <<>> /\ s[1] = " " THEN Strip(Tail(s))
    ELSE IF s # <<>> /\ s[Len(s)] = " " THEN Strip(SubSeq(s, 1, Len(s) - 1))
    ELSE s

Unsigned(s) == IF s # <<>> /\ s[1] \in {"-", "+"} THEN Tail(s) ELSE s
Sign(s) == IF s # <<>> /\ s[1] = "-" THEN -1 ELSE 1

(* int(s) of a str: an optional sign and decimal digits; anything else is a
   ValueError. *)
IntParses(s) == AllDigits(Unsigned(Strip(s)))
IntOf(s) == Sign(Strip(s)) * DigitsVal(Unsigned(Strip(s)))

RECURSIVE Pow10(_)
Pow10(k) == IF k = 0 THEN 1 ELSE 10 * Pow10(k - 1)

(* float(s) of a str: "nan", "inf", or an optional sign, digits and an
   optional fraction; anything else is a ValueError. *)
FloatWord(s) == StrLower(Unsigned(Strip(s)))
FloatParses(s) ==
    LET u == Unsigned(Strip(s))
        p == Split(u, ".")
    IN  \/ FloatWord(s) \in {<<"n", "a", "n">>, <<"i", "n", "f">>}
        \/ Len(p) = 1 /\ AllDigits(p[1])
        \/ /\ Len(p) = 2
           /\ p[1] \o p[2] # <<>>
           /\ \A i \in 1..Len(p[1] \o p[2]) : IsDigit((p[1] \o p[2])[i])
FloatOfStr(s) ==
    LET u == Unsigned(Strip(s))
        p == Split(u, ".")
        frac == IF Len(p) = 2 THEN p[2] ELSE <<>>
    IN  CASE FloatWord(s) = <<"n", "a", "n">> -> NaN
          [] FloatWord(s) = <<"i", "n", "f">> ->
                 IF Sign(Strip(s)) < 0 THEN NegInf ELSE Inf
          [] OTHER ->
                 Fin(Rat(Sign(Strip(s)) * DigitsVal(p[1] \o frac), Pow10(Len(frac))))

(* float(x) of a job field: TypeError on None, ValueError on a str that is
   no number, the number itself otherwise. *)
FloatRaises(x) == x.t = "none" \/ (x.t = "str" /\ ~FloatParses(x.s))
FloatOf(x) == IF x.t = "num" THEN x.x ELSE FloatOfStr(x.s)

(* The decimal digits of a natural number. *)
RECURSIVE NatChars(_)
NatChars(n) ==
    IF n < 10 THEN <<DigitChars[n + 1]>>
    ELSE NatChars(n \div 10) \o <<DigitChars[(n % 10) + 1]>>

(* q * 100 rounded to the nearest integer, ties to even. *)
Hundredths(q) ==
    LET a == Abs(q[1]) * 100
        f == a \div q[2]
        r == a % q[2]
    IN  IF 2 * r > q[2] \/ (2 * r = q[2] /\ f % 2 = 1) THEN f + 1 ELSE f

(* f"{q:.2f}" *)
Fmt2f(q) ==
    LET h == Hundredths(q)
    IN  (IF q[1] < 0 /\ h > 0 THEN <<"-">> ELSE <<>>)
        \o NatChars(h \div 100) \o <<".">>
        \o <<DigitChars[((h % 100) \div 10) + 1], DigitChars[(h % 10) + 1]>>

----------------------------------------------------------------------------
(* The Reward Policy Table. *)

PolicyEntry(threshold, training_per_hour, min_time, max_time) ==
    [threshold |-> threshold, training_per_hour |-> training_per_hour,
     fine_tuning_time |-> <<min_time, max_time>>]

ModelNames == {"llama2-7b", "OpenELM-270M", "OpenELM-450M", "OpenELM-3B",
               "GPT2", "LLama3B"}

model_thresholds ==
    [m \in ModelNames |->
        CASE m = "llama2-7b"    -> PolicyEntry(Rat(20, 100), Rat(12, 10), 10, 12)
          [] m = "OpenELM-270M" -> PolicyEntry(Rat(50, 100), Rat(10, 10), 3, 5)
          [] m = "OpenELM-450M" -> PolicyEntry(Rat(35, 100), Rat(13, 10), 6, 8)
          [] m = "OpenELM-3B"   -> PolicyEntry(Rat(20, 100), Rat(22, 10), 10, 12)
          [] m = "GPT2"         -> PolicyEntry(Rat(50, 100), Rat(15, 10), 3, 5)
          [] m = "LLama3B"      -> PolicyEntry(Rat(35, 100), Rat(22, 10), 6, 8)]

default_model_threshold == PolicyEntry(Rat(40, 10), Rat(10, 10), 0, 2)

(* Lines 52-57: the policy entry of a job. *)
ModelInfo(job) ==
    IF ~TruthyKey(job.model_tuned) THEN default_model_threshold
    ELSE IF job.model_tuned.key \in ModelNames
         THEN model_thresholds[job.model_tuned.key]
         ELSE default_model_threshold

----------------------------------------------------------------------------
(* The Duration Parser, lines 79-92. *)

DurationParts(x) == Split(x.s, ":")

(* The split has 2 or 3 parts (otherwise "Invalid duration format"). *)
DurationFormatOk(x) == Len(DurationParts(x)) \in {2, 3}

(* map(int, duration_parts) raises no ValueError. *)
DurationParses(x) ==
    \A i \in 1..Len(DurationParts(x)) : IntParses(DurationParts(x)[i])

(* hours + minutes / 60 + seconds / 3600, or hours + minutes / 60. *)
Duration(x) ==
    LET p == DurationParts(x)
    IN  IF Len(p) = 3
        THEN RAdd(RAdd(RInt(IntOf(p[1])), Rat(IntOf(p[2]), 60)),
                  Rat(IntOf(p[3]), 3600))
        ELSE RAdd(RInt(IntOf(p[1])), Rat(IntOf(p[2]), 60))

----------------------------------------------------------------------------
(* calculate_reward, lines 49-106: the pair (reward, message). *)

MsgInvalidLoss(job) == <<"Invalid loss value: ", job.loss>>
MsgNoModel == <<"No valid Hugging Face model created">>
MsgDurationNone == <<"Invalid duration format: None">>
MsgDurationFormat(job) == <<"Invalid duration format: ", job.totalPipelineTime.s>>
MsgDurationParse(job) == <<"Unable to parse duration: ", job.totalPipelineTime.s>>
MsgLoss == <<"Loss exceeds or equals threshold">>
MsgTooQuick(min_time, duration) ==
    <<"Training completed too quickly. Expected minimum ", min_time,
      " hours, but took ", Fmt2f(duration), " hours">>
MsgTooLong(max_time, duration) ==
    <<"Training took longer than expected. Maximum allowed time is ", max_time,
      " hours, but took ", Fmt2f(duration), " hours">>
MsgGranted(duration) ==
    <<"Reward granted for ", Fmt2f(duration), " hours of training">>

(* The artifact check without its substring test. *)
NoModelCreated_OnlyEmpty(job) == ~Truthy(job.huggingFaceRepoId)

(* Line 68: not model_created or 'huggingface' not in model_created.lower() *)
NoModelCreated(job) ==
    \/ ~Truthy(job.huggingFaceRepoId)
    \/ ~Contains(StrLower(job.huggingFaceRepoId.s), huggingface)

(* The threshold test letting loss = threshold pass. *)
LossTooHigh_Strict(loss, threshold) ==
    FloatGe(loss, threshold) /\ ~(loss.k = "fin" /\ loss.q = threshold)

(* Line 94: loss is None or loss >= threshold *)
LossTooHigh(loss, threshold) == FloatGe(loss, threshold)

(* Line 98: duration < min_time *)
TooQuick(duration, min_time) == RLt(duration, RInt(min_time))

(* The upper bound of the window taken as exclusive. *)
TooLong_Exclusive(duration, max_time) == RLe(RInt(max_time), duration)

(* Line 101: duration > max_time *)
TooLong(duration, max_time) == RLt(RInt(max_time), duration)

calculate_reward(job) ==
    LET model_info == ModelInfo(job)
        threshold == model_info.threshold
        training_per_hour == model_info.training_per_hour
        min_time == model_info.fine_tuning_time[1]
        max_time == model_info.fine_tuning_time[2]
        loss == FloatOf(job.loss)
        duration == Duration(job.totalPipelineTime)
    IN  IF FloatRaises(job.loss) THEN <<RZero, MsgInvalidLoss(job)>>
        ELSE IF NoModelCreated(job) THEN <<RZero, MsgNoModel>>
        ELSE IF job.totalPipelineTime.t = "none" THEN <<RZero, MsgDurationNone>>
        ELSE IF ~DurationFormatOk(job.totalPipelineTime)
             THEN <<RZero, MsgDurationFormat(job)>>
        ELSE IF ~DurationParses(job.totalPipelineTime)
             THEN <<RZero, MsgDurationParse(job)>>
        ELSE IF LossTooHigh(loss, threshold) THEN <<RZero, MsgLoss>>
        ELSE IF TooQuick(duration, min_time)
             THEN <<RZero, MsgTooQuick(min_time, duration)>>
        ELSE IF TooLong(duration, max_time)
             THEN <<RZero, MsgTooLong(max_time, duration)>>
        ELSE <<RMul(training_per_hour, duration), MsgGranted(duration)>>

----------------------------------------------------------------------------
(* Job records.  A document of 'completed_jobs' holds the fields the miner
   side wrote and, once the validator has processed it, status, reward and
   reward_message. *)

Job(model_tuned, loss, totalPipelineTime, huggingFaceRepoId, minerId) ==
    [model_tuned |-> model_tuned, loss |-> loss,
     totalPipelineTime |-> totalPipelineTime,
     huggingFaceRepoId |-> huggingFaceRepoId, minerId |-> minerId,
     status |-> None, reward |-> None, reward_message |-> None]

TwoDigits(n) == <<DigitChars[(n \div 10) + 1], DigitChars[(n % 10) + 1]>>
HMS(h, m, s) == TwoDigits(h) \o <<":">> \o TwoDigits(m) \o <<":">> \o TwoDigits(s)
HM(h, m) == TwoDigits(h) \o <<":">> \o TwoDigits(m)

HfUrl == <<"h", "t", "t", "p", "s", ":", "/", "/", "h", "u", "g", "g", "i",
           "n", "g", "f", "a", "c", "e", ".", "c", "o", "/", "x">>
HfMixedCase == <<"H", "u", "g", "g", "i", "n", "g", "F", "a", "c", "e", "/", "x">>
GithubUrl == <<"h", "t", "t", "p", "s", ":", "/", "/", "g", "i", "t", "h", "u",
               "b", ".", "c", "o", "m", "/", "x">>
HfBroken == <<"h", "u", "g", "g", "i", "n", "g", " ", "f", "a", "c", "e">>

(* The inputs of the direct calculate_reward calls. *)
ModelInputs ==
    {None, Key(""), Key("llama2-7b"), Key("OpenELM-270M"), Key("OpenELM-450M"),
     Key("OpenELM-3B"), Key("GPT2"), Key("LLama3B"), Key("mistral-7b")}

LossInputs ==
    {None, Str(<<>>), Str(<<"a", "b", "c">>),
     Str(<<"0", ".", "1", "5">>), Str(<<"0", ".", "2", "0">>),
     Str(<<"0", ".", "3", "5">>), Str(<<"0", ".", "4">>), Str(<<".", "5">>),
     Str(<<"3", ".", "9">>), Str(<<"4">>), Str(<<" ", "4", ".", "0", "1">>),
     Str(<<"-", "1">>), Str(<<"n", "a", "n">>), Str(<<"I", "n", "f">>),
     Num(Fin(Rat(15, 100))), Num(Fin(Rat(1, 5))), Num(NaN)}

DurationInputs ==
    {Str(HMS(h, m, s)) : h \in {0, 1, 2, 3, 5, 8, 10, 11, 12}, m \in {0, 30}, s \in {0, 1}}
    \cup {Str(HM(h, m)) : h \in {0, 2, 4, 6, 8, 12}, m \in {0, 45}}
    \cup {None, Str(<<>>), Str(<<"a", "b", "c">>), Str(<<"1", "1">>),
          Str(<<"1", ":", "2", ":", "3", ":", "4">>), Str(<<"1", ":", ":", "2">>),
          Str(<<"1", "1", ":", "x", "x">>), Str(<<"-", "1", ":", "0", "0">>),
          Str(<<"1", "1", ":", "-", "3", "0", ":", "0", "0">>),
          Str(<<"1", ":", "6", "0">>)}

RepoInputs ==
    {None, Str(<<>>), Str(HfUrl), Str(HfMixedCase), Str(GithubUrl), Str(HfBroken)}

CalcJobs ==
    {Job(m, l, d, r, "5Alice") :
        m \in ModelInputs, l \in LossInputs, d \in DurationInputs, r \in RepoInputs}

----------------------------------------------------------------------------
(* Direct calls of calculate_reward: one call on one job record. *)

NoJob == Job(None, None, None, None, "")

InitCalc ==
    /\ job_data \in CalcJobs
    /\ result = <<>>
    /\ pc = "call"
    /\ completed_jobs = <<>>
    /\ modules_keys = <<>>
    /\ run = 0
    /\ cursor = 0
    /\ score_dict = <<>>
    /\ votes = <<>>
    /\ calls = <<>>
    /\ stream = <<>>
    /\ limit = 0
    /\ cut_scores = <<>>

CalculateReward ==
    /\ pc = "call"
    /\ result' = calculate_reward(job_data)
    /\ pc' = "returned"
    /\ UNCHANGED <<completed_jobs, modules_keys, run, cursor, score_dict, votes,
                   calls, stream, job_data, limit, cut_scores>>

NextCalc == CalculateReward

SpecCalc == InitCalc /\ [][NextCalc]_vars

----------------------------------------------------------------------------
(* Dicts: the items (key, value) in insertion order. *)

DictKeys(d) == {d[i][1] : i \in 1..Len(d)}
DictGet(d, k) == d[CHOOSE i \in 1..Len(d) : d[i][1] = k][2]

(* A dict assignment that keeps the value a key already has. *)
DictSet_KeepFirst(d, k, v) ==
    IF k \in DictKeys(d) THEN d ELSE Append(d, <<k, v>>)

(* d[k] = v: a new key goes last, a key already there keeps its place and
   takes the new value. *)
DictSet(d, k, v) ==
    IF k \in DictKeys(d)
    THEN [i \in 1..Len(d) |-> IF d[i][1] = k THEN <<k, v>> ELSE d[i]]
    ELSE Append(d, <<k, v>>)

(* dict(items) *)
RECURSIVE DictOf(_)
DictOf(items) ==
    IF items = <<>> THEN <<>>
    ELSE DictSet(DictOf(SubSeq(items, 1, Len(items) - 1)),
                 items[Len(items)][1], items[Len(items)][2])

----------------------------------------------------------------------------
(* The Weight pipeline, lines 136-186. *)

max_allowed_weights == 420

(* x goes after every item of the descending sequence whose score is >= its
   own: equal scores keep their original order (sorted is stable, also with
   reverse=True). *)
RECURSIVE InsertDesc(_, _)
InsertDesc(sorted, x) ==
    IF sorted = <<>> THEN <<x>>
    ELSE IF RLe(x[2], sorted[1][2])
         THEN <<sorted[1]>> \o InsertDesc(Tail(sorted), x)
         ELSE <<x>> \o sorted

(* The same with x going before the items of equal score. *)
RECURSIVE InsertDescBefore(_, _)
InsertDescBefore(sorted, x) ==
    IF sorted = <<>> THEN <<x>>
    ELSE IF RLt(x[2], sorted[1][2])
         THEN <<sorted[1]>> \o InsertDescBefore(Tail(sorted), x)
         ELSE <<x>> \o sorted

(* A descending sort that reverses the order of equal scores. *)
RECURSIVE SortedDesc_TiesReversed(_)
SortedDesc_TiesReversed(items) ==
    IF items = <<>> THEN <<>>
    ELSE InsertDescBefore(SortedDesc_TiesReversed(SubSeq(items, 1, Len(items) - 1)),
                          items[Len(items)])

(* sorted(score_dict.items(), key=lambda x: x[1], reverse=True) *)
RECURSIVE SortedDesc(_)
SortedDesc(items) ==
    IF items = <<>> THEN <<>>
    ELSE InsertDesc(SortedDesc(SubSeq(items, 1, Len(items) - 1)), items[Len(items)])

(* seq[:n] for n >= 0 *)
Prefix(seq, n) == SubSeq(seq, 1, IF n < Len(seq) THEN n ELSE Len(seq))

cut_to_max_allowed_weights(scores, max_allowed) ==
    DictOf(Prefix(SortedDesc(scores), max_allowed))

(* A weight rounded to the nearest integer. *)
assign_weight_Rounded(score) ==
    Trunc(RAdd(RMul(score, RInt(1000)), Rat(1, 2)))

(* int(score * 1000 / max_score) with max_score = 1.0 *)
assign_weight(score) ==
    LET max_score == Rat(10, 10)
    IN  Trunc(RDiv(RMul(score, RInt(1000)), max_score))

(* Line 151: the first uid of the snapshot whose address is ss58_address. *)
HasUid(keys, ss58_address) == \E i \in 1..Len(keys) : keys[i][2] = ss58_address
MinerUid(keys, ss58_address) ==
    keys[CHOOSE i \in 1..Len(keys) :
            /\ keys[i][2] = ss58_address
            /\ \A j \in 1..(i - 1) : keys[j][2] # ss58_address][1]

(* Lines 149-156: uid_scores. *)
RECURSIVE UidScores(_, _)
UidScores(scores, keys) ==
    IF scores = <<>> THEN <<>>
    ELSE LET rest == UidScores(SubSeq(scores, 1, Len(scores) - 1), keys)
             last == scores[Len(scores)]
         IN  IF HasUid(keys, last[1])
             THEN DictSet(rest, MinerUid(keys, last[1]), last[2])
             ELSE rest

(* Line 164: weighted_scores. *)
WeightedScores(uid_scores) ==
    [i \in 1..Len(uid_scores) |-> <<uid_scores[i][1], assign_weight(uid_scores[i][2])>>]

(* Lines 172-175: a second client.vote after the first one raised. *)
VoteCalls_Retry(r, uids, weights, raised) ==
    IF raised
    THEN <<[run |-> r, uids |-> uids, weights |-> weights, raised |-> TRUE],
           [run |-> r, uids |-> uids, weights |-> weights, raised |-> FALSE]>>
    ELSE <<[run |-> r, uids |-> uids, weights |-> weights, raised |-> FALSE]>>

(* Lines 172-175: the client.vote calls of one set_weights: one call, whose
   exception is caught and logged. *)
VoteCalls(r, uids, weights, raised) ==
    <<[run |-> r, uids |-> uids, weights |-> weights, raised |-> raised]>>

(* set_weights(score_dict), lines 136-175. *)
SetWeights ==
    /\ pc = "set_weights"
    /\ LET cut == cut_to_max_allowed_weights(score_dict, max_allowed_weights)
           uid_scores == UidScores(cut, modules_keys)
           weighted_scores == WeightedScores(uid_scores)
           uids == [i \in 1..Len(weighted_scores) |-> weighted_scores[i][1]]
           weights == [i \in 1..Len(weighted_scores) |-> weighted_scores[i][2]]
       IN  IF uid_scores = <<>>
           THEN votes' = votes
           ELSE \E raised \in BOOLEAN :
                    votes' = votes \o VoteCalls(run, uids, weights, raised)
    /\ pc' = "idle"
    /\ UNCHANGED <<completed_jobs, modules_keys, run, cursor, score_dict, calls,
                   stream, job_data, result, limit, cut_scores>>

----------------------------------------------------------------------------
(* reward_completed_jobs, lines 108-134. *)

(* A scan that skips the documents already processed. *)
Stream_Unprocessed(jobs) ==
    SelectSeq([i \in 1..Len(jobs) |-> i], LAMBDA i : jobs[i].status.t = "none")

(* Lines 110-111: db.collection('completed_jobs').stream() yields every
   document of the collection. *)
Stream(jobs) == [i \in 1..Len(jobs) |-> i]

(* Lines 122-126: job.reference.update({status, reward, reward_message}) *)
UpdateRewarded(doc, reward, message) ==
    [doc EXCEPT !.status = Key("rewarded"), !.reward = Num(reward),
                !.reward_message = Str(message)]

(* The update of the else branch also writing the reward. *)
UpdateNotRewarded_WithReward(doc, reward, message) ==
    [doc EXCEPT !.status = Key("not_rewarded"), !.reward = Num(reward),
                !.reward_message = Str(message)]

(* Lines 128-131: job.reference.update({status, reward_message}) *)
UpdateNotRewarded(doc, reward, message) ==
    [doc EXCEPT !.status = Key("not_rewarded"), !.reward_message = Str(message)]

(* Line 133: if score_dict *)
ShouldSetWeights(scores) == scores # <<>>

Begin ==
    /\ pc = "idle"
    /\ run < MaxRuns
    /\ run' = run + 1
    /\ stream' = Stream(completed_jobs)
    /\ cursor' = 1
    /\ score_dict' = <<>>
    /\ pc' = "scan"
    /\ UNCHANGED <<completed_jobs, modules_keys, votes, calls, job_data, result,
                   limit, cut_scores>>

(* One iteration of the loop of lines 114-131. *)
ScanJob ==
    /\ pc = "scan"
    /\ cursor <= Len(stream)
    /\ \E returned \in {calculate_reward(completed_jobs[stream[cursor]])} :
       LET i == stream[cursor]
           job == completed_jobs[i]
           reward == returned[1]
           message == returned[2]
       IN  IF RLt(RZero, reward)
           THEN /\ score_dict' = DictSet(score_dict, job.minerId, RDivInt(reward, 100))
                /\ completed_jobs' =
                       [completed_jobs EXCEPT ![i] = UpdateRewarded(@, reward, message)]
           ELSE /\ score_dict' = score_dict
                /\ completed_jobs' =
                       [completed_jobs EXCEPT ![i] = UpdateNotRewarded(@, reward, message)]
    /\ cursor' = cursor + 1
    /\ UNCHANGED <<modules_keys, pc, run, votes, calls, stream, job_data, result,
                   limit, cut_scores>>

(* Lines 133-134, the stream exhausted. *)
ScanEnd ==
    /\ pc = "scan"
    /\ cursor > Len(stream)
    /\ IF ShouldSetWeights(score_dict)
       THEN pc' = "set_weights" /\ calls' = Append(calls, run)
       ELSE pc' = "idle" /\ calls' = calls
    /\ UNCHANGED <<completed_jobs, modules_keys, run, cursor, score_dict, votes,
                   stream, job_data, result, limit, cut_scores>>

----------------------------------------------------------------------------
(* The validator over a collection of completed jobs and a network. *)

JobInputs ==
    {Job(Key("llama2-7b"), Num(Fin(Rat(15, 100))), Str(HMS(11, 0, 0)), Str(HfUrl), "5Alice"),
     Job(None, Str(<<"0", ".", "1", "5">>), Str(HMS(1, 30, 0)), Str(HfUrl), "5Alice"),
     Job(None, Str(<<"0", ".", "1", "5">>), Str(HMS(0, 0, 0)), Str(HfUrl), "5Alice"),
     Job(Key("GPT2"), Str(<<"0", ".", "4">>), Str(HM(4, 0)), Str(HfMixedCase), "5Bob"),
     Job(Key("mistral-7b"), Num(Fin(Rat(1, 5))), Str(HM(1, 30)), Str(HfUrl), "5Bob"),
     Job(Key("llama2-7b"), Str(<<"0", ".", "2", "0">>), Str(HMS(11, 0, 0)), Str(HfUrl), "5Bob"),
     Job(Key("OpenELM-3B"), Num(Fin(Rat(15, 100))), Str(HMS(12, 0, 0)), Str(HfUrl), "5Carol")}

SnapshotInputs ==
    {<<>>,
     <<<<0, "5Validator">>, <<1, "5Alice">>, <<2, "5Bob">>>>,
     <<<<0, "5Bob">>, <<7, "5Validator">>>>,
     <<<<3, "5Dave">>, <<1, "5Carol">>, <<0, "5Alice">>, <<2, "5Bob">>>>}

NetworkInputs ==
    {<<<<0, "5Validator">>, <<1, "5Alice">>, <<2, "5Bob">>>>,
     <<<<0, "5Bob">>, <<7, "5Validator">>>>}

RECURSIVE SeqsUpTo(_, _)
SeqsUpTo(S, n) ==
    IF n = 0 THEN {<<>>}
    ELSE SeqsUpTo(S, n - 1)
         \cup {Append(q, x) : q \in {r \in SeqsUpTo(S, n - 1) : Len(r) = n - 1}, x \in S}

Init ==
    /\ completed_jobs \in SeqsUpTo(JobInputs, MaxJobs)
    /\ modules_keys \in NetworkInputs
    /\ pc = "idle"
    /\ run = 0
    /\ cursor = 0
    /\ stream = <<>>
    /\ score_dict = <<>>
    /\ votes = <<>>
    /\ calls = <<>>
    /\ job_data = NoJob
    /\ result = <<>>
    /\ limit = 0
    /\ cut_scores = <<>>

Next == Begin \/ ScanJob \/ ScanEnd \/ SetWeights

Spec == Init /\ [][Next]_vars

----------------------------------------------------------------------------
(* Direct calls of cut_to_max_allowed_weights and of set_weights on a Score
   Mapping. *)

AddressInputs == {"5Alice", "5Bob", "5Carol", "5Dave"}

(* 0.0009, 0.0034, 0.132 and 1.0 *)
ScoreInputs == {Rat(9, 10000), Rat(34, 10000), Rat(132, 1000), Rat(1, 1)}

RECURSIVE ScoreDicts(_)
ScoreDicts(n) ==
    IF n = 0 THEN {<<>>}
    ELSE ScoreDicts(n - 1)
         \cup UNION {{Append(d, <<k, v>>) : k \in AddressInputs \ DictKeys(d),
                                              v \in ScoreInputs} :
                        d \in {e \in ScoreDicts(n - 1) : Len(e) = n - 1}}

InitCut ==
    /\ score_dict \in ScoreDicts(MaxEntries)
    /\ limit \in 0..MaxLimit
    /\ cut_scores = <<>>
    /\ pc = "cut"
    /\ completed_jobs = <<>>
    /\ modules_keys = <<>>
    /\ run = 0
    /\ cursor = 0
    /\ stream = <<>>
    /\ votes = <<>>
    /\ calls = <<>>
    /\ job_data = NoJob
    /\ result = <<>>

CutToMax ==
    /\ pc = "cut"
    /\ cut_scores' = cut_to_max_allowed_weights(score_dict, limit)
    /\ pc' = "cut_done"
    /\ UNCHANGED <<completed_jobs, modules_keys, run, cursor, score_dict, votes,
                   calls, stream, job_data, result, limit>>

NextCut == CutToMax

SpecCut == InitCut /\ [][NextCut]_vars

InitWeights ==
    /\ score_dict \in ScoreDicts(MaxEntries)
    /\ modules_keys \in SnapshotInputs
    /\ pc = "set_weights"
    /\ run = 1
    /\ calls = <<1>>
    /\ votes = <<>>
    /\ completed_jobs = <<>>
    /\ cursor = 0
    /\ stream = <<>>
    /\ job_data = NoJob
    /\ result = <<>>
    /\ limit = 0
    /\ cut_scores = <<>>

NextWeights == SetWeights

SpecWeights == InitWeights /\ [][NextWeights]_vars

----------------------------------------------------------------------------
(* What the claims about calculate_reward speak of. *)

(* The loss coerces to a number (nan is not a number). *)
LossIsNumber(job) == ~FloatRaises(job.loss) /\ FloatOf(job.loss).k # "nan"

(* huggingFaceRepoId is a str containing "huggingface" in some letter case. *)
RepoNamesHuggingFace(job) ==
    /\ job.huggingFaceRepoId.t = "str"
    /\ \E i \in 1..Len(job.huggingFaceRepoId.s) :
          /\ i + 10 <= Len(job.huggingFaceRepoId.s)
          /\ \A j \in 1..11 :
                LowerChar(job.huggingFaceRepoId.s[i + j - 1]) = huggingface[j]

(* totalPipelineTime is H:M:S or H:M with integer parts. *)
DurationIsParseable(job) ==
    /\ job.totalPipelineTime.t = "str"
    /\ DurationFormatOk(job.totalPipelineTime)
    /\ DurationParses(job.totalPipelineTime)

ExampleJob(duration) ==
    Job(Key("llama2-7b"), Num(Fin(Rat(15, 100))), Str(duration), Str(HfUrl), "5Alice")

(* C1, as stated: a job whose loss is a number >= the threshold of its policy
   entry gets exactly (0, "Loss exceeds or equals threshold"), whatever its
   other fields hold. *)
C1_AnyOtherFields ==
    (pc = "returned" /\ LossIsNumber(job_data)
        /\ FloatGe(FloatOf(job_data.loss), ModelInfo(job_data).threshold))
    => result = <<RZero, MsgLoss>>

(* C1, amended: such a job gets reward 0; the pair is exactly
   (0, "Loss exceeds or equals threshold") when its huggingFaceRepoId names
   huggingface and its totalPipelineTime parses, loss = threshold included. *)
C1_LossAtOrAboveThreshold ==
    (pc = "returned" /\ LossIsNumber(job_data)
        /\ FloatGe(FloatOf(job_data.loss), ModelInfo(job_data).threshold))
    => /\ result[1] = RZero
       /\ (RepoNamesHuggingFace(job_data) /\ DurationIsParseable(job_data))
            => result = <<RZero, <<"Loss exceeds or equals threshold">>>>

C1_Witness ==
    /\ pc = "returned"
    /\ job_data = Job(Key("llama2-7b"), Str(<<"0", ".", "2", "0">>),
                      Str(HMS(11, 0, 0)), Str(HfUrl), "5Alice")
    /\ result = <<RZero, <<"Loss exceeds or equals threshold">>>>

(* C2: a job whose huggingFaceRepoId is missing, empty or a str without
   "huggingface" in any letter case gets reward 0, whatever model_tuned, loss
   and totalPipelineTime hold. *)
C2_NoArtifactNoReward ==
    (pc = "returned" /\ ~RepoNamesHuggingFace(job_data)) => result[1] = RZero

C2_Witness ==
    /\ pc = "returned"
    /\ job_data = [ExampleJob(HMS(11, 0, 0)) EXCEPT !.huggingFaceRepoId = Str(GithubUrl)]
    /\ result = <<RZero, <<"No valid Hugging Face model created">>>>

(* C3: for a job with a numeric loss, a huggingface repo id and a parseable
   duration d, the call accepts with reward training_per_hour * d exactly when
   loss < threshold and min_hours <= d <= max_hours of the policy entry, which
   is (4.0, 1.0, 0-2h) when model_tuned is absent or unrecognized; with
   loss < threshold, d < min_hours gives 0 and the "too quickly" message and
   d > max_hours gives 0 and the "took longer" message.  llama2-7b with loss
   0.15 gets 13.2 for "11:00:00" and 0 for "08:00:00". *)
C3_AcceptWindow ==
    (pc = "returned" /\ LossIsNumber(job_data) /\ RepoNamesHuggingFace(job_data)
        /\ DurationIsParseable(job_data))
    => LET info == ModelInfo(job_data)
           d == Duration(job_data.totalPipelineTime)
           below == FloatLt(FloatOf(job_data.loss), info.threshold)
           lo == RInt(info.fine_tuning_time[1])
           hi == RInt(info.fine_tuning_time[2])
           granted == result[2][1] = "Reward granted for "
       IN  /\ granted <=> (below /\ RLe(lo, d) /\ RLe(d, hi))
           /\ granted => result = <<RMul(info.training_per_hour, d), MsgGranted(d)>>
           /\ ~granted => result[1] = RZero
           /\ (below /\ RLt(d, lo)) =>
                  result[2][1] = "Training completed too quickly. Expected minimum "
           /\ (below /\ RLt(hi, d)) =>
                  result[2][1] = "Training took longer than expected. Maximum allowed time is "
           /\ (job_data.model_tuned.t = "none" \/ job_data.model_tuned.key \notin ModelNames)
                  => info = [threshold |-> <<4, 1>>, training_per_hour |-> <<1, 1>>,
                             fine_tuning_time |-> <<0, 2>>]
           /\ job_data = ExampleJob(HMS(11, 0, 0)) => result[1] = <<66, 5>>
           /\ job_data = ExampleJob(HMS(8, 0, 0)) =>
                  result = <<RZero, MsgTooQuick(10, <<8, 1>>)>>

C3_Witness ==
    /\ pc = "returned"
    /\ job_data = ExampleJob(HMS(12, 0, 0))
    /\ result = <<Rat(144, 10),
                  <<"Reward granted for ", <<"1", "2", ".", "0", "0">>,
                    " hours of training">>>>

----------------------------------------------------------------------------
(* What the claims about reward_completed_jobs speak of. *)

JobFields == {"model_tuned", "loss", "totalPipelineTime", "huggingFaceRepoId", "minerId"}

RewardOf(job) == calculate_reward(job)[1]
HasStatus(doc, status) == doc.status.t = "str" /\ doc.status.key = status
AllDocuments == [i \in 1..Len(completed_jobs) |-> i]
VotesOf(r) ==
    LET of == SelectSeq(votes, LAMBDA v : v.run = r)
    IN  [i \in 1..Len(of) |-> <<of[i].uids, of[i].weights>>]
CallsOf(r) == {i \in 1..Len(calls) : calls[i] = r}

(* C4: a step of the scan on a job with reward > 0 writes status=rewarded,
   reward and reward_message and records reward/100 under the job's minerId;
   on any other job it writes status=not_rewarded and reward_message, leaves
   reward as it was and leaves the Score Mapping alone.  No step writes another
   field or another document, or adds or removes a document. *)
C4_ScanWrites ==
    [][/\ Len(completed_jobs') = Len(completed_jobs)
       /\ \A i \in 1..Len(completed_jobs) :
             /\ DOMAIN completed_jobs'[i] = DOMAIN completed_jobs[i]
             /\ \A f \in JobFields : completed_jobs'[i][f] = completed_jobs[i][f]
             /\ ~(pc = "scan" /\ cursor' = cursor + 1 /\ i = stream[cursor])
                   => completed_jobs'[i] = completed_jobs[i]
       /\ (pc = "scan" /\ cursor' = cursor + 1) =>
             \A r \in {calculate_reward(completed_jobs[stream[cursor]])} :
             LET job == completed_jobs[stream[cursor]]
                 doc == completed_jobs'[stream[cursor]]
             IN  IF RLt(RZero, r[1])
                 THEN /\ doc.status = [t |-> "str", key |-> "rewarded"]
                      /\ doc.reward = [t |-> "num", x |-> r[1]]
                      /\ doc.reward_message = [t |-> "str", s |-> r[2]]
                      /\ job.minerId \in DictKeys(score_dict')
                      /\ DictGet(score_dict', job.minerId) = Rat(r[1][1], r[1][2] * 100)
                      /\ \A k \in DictKeys(score_dict) \ {job.minerId} :
                            /\ k \in DictKeys(score_dict')
                            /\ DictGet(score_dict', k) = DictGet(score_dict, k)
                 ELSE /\ doc.status = [t |-> "str", key |-> "not_rewarded"]
                      /\ doc.reward_message = [t |-> "str", s |-> r[2]]
                      /\ doc.reward = job.reward
                      /\ score_dict' = score_dict
      ]_vars

C4_Witness ==
    /\ pc = "idle" /\ run = 1 /\ Len(completed_jobs) = 2
    /\ HasStatus(completed_jobs[1], "rewarded")
    /\ completed_jobs[1].reward = Num(<<66, 5>>)
    /\ score_dict = <<<<"5Alice", <<33, 250>>>>>>
    /\ HasStatus(completed_jobs[2], "not_rewarded")
    /\ completed_jobs[2].reward.t = "none"
    /\ completed_jobs[2].reward_message.s = <<"Loss exceeds or equals threshold">>

(* C5: a run invokes set_weights once, after every job of the scan has been
   scored and written, when its Score Mapping is non-empty, and never when it
   is empty; a run makes at most one client.vote call, also when the call
   raises, and then still ends. *)
C5_OnePipelineOneVote ==
    /\ \A r \in 1..run :
          /\ Cardinality(CallsOf(r)) <= 1
          /\ Len(VotesOf(r)) <= 1
          /\ VotesOf(r) # <<>> => CallsOf(r) # {}
    /\ pc = "scan" => CallsOf(run) = {}
    /\ pc = "set_weights" =>
          /\ cursor = Len(completed_jobs) + 1
          /\ stream = AllDocuments
          /\ \A i \in 1..Len(completed_jobs) : completed_jobs[i].status.t = "str"
    /\ (pc = "idle" /\ run >= 1) => (CallsOf(run) # {} <=> score_dict # <<>>)
    /\ \A i \in 1..Len(votes) : votes[i].run = run => pc = "idle"

C5_Witness ==
    /\ pc = "idle" /\ run = 1
    /\ Len(votes) = 1 /\ votes[1].raised
    /\ calls = <<1>>

(* C8: a second run over the unchanged collection scans every document again,
   whatever its status, and submits what the run before it submitted: a vote
   whenever a rewarded job's minerId is in the snapshot. *)
C8_SecondRunResubmits ==
    /\ (run >= 2 /\ pc # "idle") => stream = AllDocuments
    /\ (run >= 2 /\ pc = "idle") =>
          /\ stream = AllDocuments
          /\ cursor = Len(completed_jobs) + 1
          /\ VotesOf(run) = VotesOf(run - 1)
          /\ (\E i \in 1..Len(completed_jobs) :
                 /\ HasStatus(completed_jobs[i], "rewarded")
                 /\ \E j \in 1..Len(modules_keys) :
                       modules_keys[j][2] = completed_jobs[i].minerId)
             => Len(VotesOf(run)) = 1

C8_Witness ==
    /\ pc = "idle" /\ run = 2
    /\ Len(votes) = 2
    /\ votes[1].run = 1 /\ votes[2].run = 2
    /\ votes[2].uids = <<1>> /\ votes[2].weights = <<132>>
    /\ Len(completed_jobs) = 2
    /\ HasStatus(completed_jobs[1], "rewarded")
    /\ HasStatus(completed_jobs[2], "not_rewarded")

(* C9: after the scan the Score Mapping holds, for each minerId with a job of
   reward > 0, reward/100 of the last such job in scan order, and every job of
   reward > 0 is marked rewarded with its own reward. *)
C9_LastWriteWins ==
    (run >= 1 /\ pc \in {"set_weights", "idle"}) =>
        \A rewards \in {[i \in 1..Len(completed_jobs) |-> RewardOf(completed_jobs[i])]} :
            /\ \A m \in {completed_jobs[i].minerId : i \in 1..Len(completed_jobs)} :
                  LET paid == {i \in 1..Len(completed_jobs) :
                                  completed_jobs[i].minerId = m /\ RLt(RZero, rewards[i])}
                      last == CHOOSE i \in paid : \A j \in paid : j <= i
                  IN  IF paid = {} THEN m \notin DictKeys(score_dict)
                      ELSE /\ m \in DictKeys(score_dict)
                           /\ DictGet(score_dict, m) =
                                 Rat(rewards[last][1], rewards[last][2] * 100)
            /\ \A i \in 1..Len(completed_jobs) :
                  RLt(RZero, rewards[i]) =>
                      /\ HasStatus(completed_jobs[i], "rewarded")
                      /\ completed_jobs[i].reward = [t |-> "num", x |-> rewards[i]]

C9_Witness ==
    /\ pc = "idle" /\ run = 1 /\ Len(completed_jobs) = 2
    /\ completed_jobs[1].minerId = "5Alice" /\ completed_jobs[2].minerId = "5Alice"
    /\ HasStatus(completed_jobs[1], "rewarded")
    /\ completed_jobs[1].reward = Num(<<66, 5>>)
    /\ HasStatus(completed_jobs[2], "rewarded")
    /\ completed_jobs[2].reward = Num(<<3, 2>>)
    /\ score_dict = <<<<"5Alice", <<3, 200>>>>>>
    /\ Len(votes) = 1 /\ votes[1].weights = <<15>>

(* C10, as stated: a processed job is marked rewarded if and only if its
   reward_message is the acceptance message ("Reward granted ..."). *)
C10_RewardedIffAccepted ==
    \A i \in 1..Len(completed_jobs) :
        completed_jobs[i].status.t = "str" =>
            (completed_jobs[i].status.key = "rewarded"
                <=> completed_jobs[i].reward_message.s[1] = "Reward granted for ")

----------------------------------------------------------------------------
(* What the claims about the weight pipeline speak of. *)

Min(a, b) == IF a < b THEN a ELSE b

(* C6: the cut of n entries to limit m holds min(n, m) entries, each an entry
   of the input with its score, and every entry kept has a score >= that of
   every entry dropped; of two entries of equal score, one kept and one
   dropped, the kept one was inserted earlier. *)
C6_CutKeepsTop ==
    pc = "cut_done" =>
        LET n == Len(score_dict)
            kept == {i \in 1..n : score_dict[i][1] \in DictKeys(cut_scores)}
        IN  /\ Len(cut_scores) = Min(n, limit)
            /\ Cardinality(DictKeys(cut_scores)) = Len(cut_scores)
            /\ \A j \in 1..Len(cut_scores) : \E i \in 1..n : score_dict[i] = cut_scores[j]
            /\ \A i \in kept : \A j \in (1..n) \ kept :
                  \/ RLt(score_dict[j][2], score_dict[i][2])
                  \/ score_dict[j][2] = score_dict[i][2] /\ i < j

C6_Witness ==
    /\ pc = "cut_done"
    /\ limit = 2
    /\ score_dict = <<<<"5Carol", <<17, 5000>>>>, <<"5Alice", <<33, 250>>>>,
                      <<"5Bob", <<17, 5000>>>>>>
    /\ cut_scores = <<<<"5Alice", <<33, 250>>>>, <<"5Carol", <<17, 5000>>>>>>

(* The integer w with w <= score * 1000 < w + 1, for a score >= 0. *)
IsTruncatedWeight(w, score) ==
    /\ w * score[2] <= score[1] * 1000
    /\ score[1] * 1000 < (w + 1) * score[2]

Resolvable == {i \in 1..Len(score_dict) :
                  \E j \in 1..Len(modules_keys) : modules_keys[j][2] = score_dict[i][1]}

(* C7: set_weights drops the addresses that are not in the snapshot and
   submits the others; it makes no vote call when none is left.  The uids and
   weights of a vote have one position per address left, holding its snapshot
   uid and the truncation of its score * 1000 (1.0 gives 1000, 0.0034 gives 3). *)
C7_ResolvedWeights ==
    pc = "idle" =>
        /\ Resolvable = {} => votes = <<>>
        /\ Resolvable # {} =>
              /\ Len(votes) = 1
              /\ Len(votes[1].uids) = Len(votes[1].weights)
              /\ Len(votes[1].uids) = Cardinality(Resolvable)
              /\ \A p \in 1..Len(votes[1].uids) : \E i \in Resolvable :
                    /\ \E j \in 1..Len(modules_keys) :
                          modules_keys[j] = <<votes[1].uids[p], score_dict[i][1]>>
                    /\ IsTruncatedWeight(votes[1].weights[p], score_dict[i][2])
                    /\ score_dict[i][2] = <<1, 1>> => votes[1].weights[p] = 1000
                    /\ score_dict[i][2] = <<17, 5000>> => votes[1].weights[p] = 3
              /\ \A i \in Resolvable : \E p \in 1..Len(votes[1].uids) :
                    \E j \in 1..Len(modules_keys) :
                          modules_keys[j] = <<votes[1].uids[p], score_dict[i][1]>>

C7_Witness ==
    /\ pc = "idle"
    /\ score_dict = <<<<"5Bob", <<17, 5000>>>>, <<"5Carol", <<33, 250>>>>,
                      <<"5Alice", <<1, 1>>>>>>
    /\ modules_keys = <<<<0, "5Validator">>, <<1, "5Alice">>, <<2, "5Bob">>>>
    /\ Len(votes) = 1
    /\ votes[1].uids = <<1, 2>>
    /\ votes[1].weights = <<1000, 3>>

====
